---- MODULE Spec2Model ----
(***************************************************************************)
(* TMC Python bridge (src/tetra/bash/midi/tmc.py): a bidirectional bridge  *)
(* between hardware MIDI messages and a line-oriented text protocol on a   *)
(* Unix stream socket.                                                     *)
(*                                                                         *)
(* Text is modelled as a sequence of one-character strings, socket data as *)
(* a sequence of bytes.  An ASCII byte is written as its character; the    *)
(* two bytes of the UTF-8 encoding of U+00E9 are written "xC3" and "xA9".  *)
(***************************************************************************)
EXTENDS Integers, Sequences, FiniteSets, TLC

(***************************************************************************)
(* Bounds of the model.                                                    *)
(***************************************************************************)
\* number of inputs (socket lines plus hardware events) the environment
\* delivers in one run
MaxInputs == 2

(***************************************************************************)
(* Text helpers: Python str operations used by the bridge.                 *)
(***************************************************************************)
NL == "\n"

Min(a, b) == IF a <= b THEN a ELSE b

\* characters str.split() / str.strip() treat as whitespace
Whitespace == {" ", "\t", "\r", "\n", "\f"}

DigitChars == <<"0", "1", "2", "3", "4", "5", "6", "7", "8", "9">>

HexChars == <<"0", "1", "2", "3", "4", "5", "6", "7", "8", "9",
              "A", "B", "C", "D", "E", "F">>

IsDigit(c) == \E i \in 1..10 : DigitChars[i] = c

DigitVal(c) == (CHOOSE i \in 1..10 : DigitChars[i] = c) - 1

RECURSIVE StrNat(_)
\* str(n) for n >= 0
StrNat(n) ==
    IF n < 10 THEN <<DigitChars[n + 1]>>
    ELSE StrNat(n \div 10) \o <<DigitChars[(n % 10) + 1]>>

\* the f-string conversion "{n}" of an int
Str(n) == IF n < 0 THEN <<"-">> \o StrNat(0 - n) ELSE StrNat(n)

RECURSIVE HexNat(_)
HexNat(n) ==
    IF n < 16 THEN <<HexChars[n + 1]>>
    ELSE HexNat(n \div 16) \o <<HexChars[(n % 16) + 1]>>

\* the f-string conversion "{n:02X}" of a non-negative int
Hex02(n) == IF n < 16 THEN <<"0">> \o HexNat(n) ELSE HexNat(n)

RECURSIVE Split(_)
\* str.split(): the maximal runs of non-whitespace characters
Split(s) ==
    IF s = <<>> THEN <<>>
    ELSE IF Head(s) \in Whitespace THEN Split(Tail(s))
    ELSE LET n == Len(s)
             stop == IF \E i \in 1..n : s[i] \in Whitespace
                     THEN (CHOOSE i \in 1..n :
                               /\ s[i] \in Whitespace
                               /\ \A j \in 1..(i - 1) : s[j] \notin Whitespace)
                     ELSE n + 1
         IN  <<SubSeq(s, 1, stop - 1)>> \o Split(SubSeq(s, stop, n))

RECURSIVE Strip(_)
\* str.strip(): leading and trailing whitespace removed
Strip(s) ==
    IF s = <<>> THEN s
    ELSE IF Head(s) \in Whitespace THEN Strip(Tail(s))
    ELSE IF s[Len(s)] \in Whitespace THEN Strip(SubSeq(s, 1, Len(s) - 1))
    ELSE s

RECURSIVE DigitsVal(_, _)
\* value of a digit string that may hold single underscores between digits
DigitsVal(s, acc) ==
    IF s = <<>> THEN acc
    ELSE IF Head(s) = "_" THEN DigitsVal(Tail(s), acc)
    ELSE DigitsVal(Tail(s), 10 * acc + DigitVal(Head(s)))

\* the body of an int literal accepted by int(): digits, single underscores
\* only between digits
IsDigitBody(s) ==
    /\ s # <<>>
    /\ \A i \in 1..Len(s) : IsDigit(s[i]) \/ s[i] = "_"
    /\ IsDigit(s[1])
    /\ IsDigit(s[Len(s)])
    /\ \A i \in 1..(Len(s) - 1) : ~(s[i] = "_" /\ s[i + 1] = "_")

\* the interpreter's limit on the number of digits int() converts
\* (sys.get_int_max_str_digits() of CPython 3.11, also in 3.7.14 and later)
IntMaxStrDigits == 4300

\* number of digits of an int literal; sign and underscores do not count
DigitCount(s) == Cardinality({i \in 1..Len(s) : IsDigit(s[i])})

\* int(token): ok is FALSE where Python raises ValueError
ParseInt(tok) ==
    LET signed == tok # <<>> /\ Head(tok) \in {"+", "-"}
        body == IF signed THEN Tail(tok) ELSE tok
    IN  IF IsDigitBody(body) /\ DigitCount(body) <= IntMaxStrDigits
        THEN [ok |-> TRUE,
              val |-> IF signed /\ Head(tok) = "-"
                      THEN 0 - DigitsVal(body, 0) ELSE DigitsVal(body, 0)]
        ELSE [ok |-> FALSE, val |-> 0]

(***************************************************************************)
(* Bit operations on Python ints.                                          *)
(***************************************************************************)
RECURSIVE BitOr(_, _)
\* a | b for non-negative ints
BitOr(a, b) ==
    IF a = 0 THEN b
    ELSE IF b = 0 THEN a
    ELSE (IF (a % 2) = 1 \/ (b % 2) = 1 THEN 1 ELSE 0)
         + 2 * BitOr(a \div 2, b \div 2)

\* x & 0x0F, x & 0x7F, x & 0xF0 on a Python int of either sign
And0F(x) == x % 16
And7F(x) == x % 128
AndF0(x) == (x % 256) - (x % 16)

(***************************************************************************)
(* UTF-8: bytes.decode() and str.encode() over the model's alphabet.       *)
(***************************************************************************)
LeadByte == "xC3"
ContByte == "xA9"
EAcute == "U+00E9"

RECURSIVE Utf8Valid(_)
Utf8Valid(bs) ==
    IF bs = <<>> THEN TRUE
    ELSE IF Head(bs) = LeadByte
         THEN Len(bs) >= 2 /\ bs[2] = ContByte /\ Utf8Valid(Tail(Tail(bs)))
    ELSE IF Head(bs) = ContByte THEN FALSE
    ELSE Utf8Valid(Tail(bs))

RECURSIVE Utf8Chars(_)
Utf8Chars(bs) ==
    IF bs = <<>> THEN <<>>
    ELSE IF Head(bs) = LeadByte THEN <<EAcute>> \o Utf8Chars(Tail(Tail(bs)))
    ELSE <<Head(bs)>> \o Utf8Chars(Tail(bs))

\* data.decode(): ok is FALSE where Python raises UnicodeDecodeError
Decode(bs) ==
    IF Utf8Valid(bs) THEN [ok |-> TRUE, text |-> Utf8Chars(bs)]
    ELSE [ok |-> FALSE, text |-> <<>>]

RECURSIVE Encode(_)
\* formatted.encode()
Encode(s) ==
    IF s = <<>> THEN <<>>
    ELSE IF Head(s) = EAcute THEN <<LeadByte, ContByte>> \o Encode(Tail(s))
    ELSE <<Head(s)>> \o Encode(Tail(s))

(***************************************************************************)
(* The words of the text protocol.                                         *)
(***************************************************************************)
SP == <<" ">>
W_NOTE_ON == <<"N", "O", "T", "E", "_", "O", "N">>
W_NOTE_OFF == <<"N", "O", "T", "E", "_", "O", "F", "F">>
W_CC == <<"C", "C">>
W_PROGRAM_CHANGE ==
    <<"P", "R", "O", "G", "R", "A", "M", "_", "C", "H", "A", "N", "G", "E">>
W_PITCH_BEND == <<"P", "I", "T", "C", "H", "_", "B", "E", "N", "D">>
W_UNKNOWN == <<"U", "N", "K", "N", "O", "W", "N">>

(***************************************************************************)
(* Message codec.                                                          *)
(***************************************************************************)
\* status bytes of the channel messages the codec knows
STATUS_NOTE_OFF == 128
STATUS_NOTE_ON == 144
STATUS_CC == 176
STATUS_PROGRAM_CHANGE == 192
STATUS_PITCH_BEND == 224

\* a channel that stays 0-indexed in the text
FormatChannel_ZeroBased(status) == And0F(status)

\* "channel = (status & 0x0F) + 1  # 1-indexed"
FormatChannel(status) == And0F(status) + 1

FmtRaise == [tag |-> "raise", line |-> <<>>]
FmtLine(l) == [tag |-> "line", line |-> l \o <<NL>>]

\* a Note On branch without the velocity-0 case
FormatNoteOn_NoZeroCase(message, channel) ==
    IF Len(message) < 3 THEN FmtRaise
    ELSE FmtLine(W_NOTE_ON \o SP \o Str(channel) \o SP \o Str(message[2])
                 \o SP \o Str(message[3]))

\* the Note On branch: velocity 0 is written as NOTE_OFF
FormatNoteOn(message, channel) ==
    IF Len(message) > 2 /\ message[3] = 0
    THEN FmtLine(W_NOTE_OFF \o SP \o Str(channel) \o SP \o Str(message[2]))
    ELSE IF Len(message) < 3 THEN FmtRaise
    ELSE FmtLine(W_NOTE_ON \o SP \o Str(channel) \o SP \o Str(message[2])
                 \o SP \o Str(message[3]))

\* a bend value assembled with the high byte shifted by 8 bits
PitchBend_Shift8(lsb, msb) == BitOr(msb * 256, lsb)

\* "bend = (message[2] << 7) | message[1]"
PitchBend(lsb, msb) == BitOr(msb * 128, lsb)

\* format_midi_message(message).  message is the list of ints the device
\* runtime delivers (message[0] of the source is message[1] here).
\* tag "none": returns None; "raise": IndexError; "line": the returned text.
format_midi_message(message) ==
    IF message = <<>> THEN [tag |-> "none", line |-> <<>>]
    ELSE
      LET status == message[1]
          msg_type == AndF0(status)
          channel == FormatChannel(status)
          n == Len(message)
      IN  IF msg_type = STATUS_NOTE_OFF THEN
            IF n < 2 THEN FmtRaise
            ELSE FmtLine(W_NOTE_OFF \o SP \o Str(channel) \o SP
                         \o Str(message[2]))
          ELSE IF msg_type = STATUS_NOTE_ON THEN FormatNoteOn(message, channel)
          ELSE IF msg_type = STATUS_CC THEN
            IF n < 3 THEN FmtRaise
            ELSE FmtLine(W_CC \o SP \o Str(channel) \o SP \o Str(message[2])
                         \o SP \o Str(message[3]))
          ELSE IF msg_type = STATUS_PROGRAM_CHANGE THEN
            IF n < 2 THEN FmtRaise
            ELSE FmtLine(W_PROGRAM_CHANGE \o SP \o Str(channel) \o SP
                         \o Str(message[2]))
          ELSE IF msg_type = STATUS_PITCH_BEND THEN
            IF n < 3 THEN FmtRaise
            ELSE FmtLine(W_PITCH_BEND \o SP \o Str(channel) \o SP
                         \o Str(PitchBend(message[2], message[3])))
          ELSE FmtLine(W_UNKNOWN \o SP \o Hex02(status) \o SP
                       \o Str(IF n > 1 THEN message[2] ELSE 0) \o SP
                       \o Str(IF n > 2 THEN message[3] ELSE 0))

\* a channel argument taken as the nibble, without the offset
ChannelNibble_NoOffset(arg) == And0F(arg)

\* the channel nibble computed from the 1-indexed channel argument
ChannelNibble(arg) == And0F(arg - 1)

\* a Program Change message padded with a third byte
ProgramChangeMessage_ThreeBytes(nibble, program) ==
    <<BitOr(STATUS_PROGRAM_CHANGE, nibble), And7F(program), 0>>

\* "[0xC0 | (channel & 0x0F), program & 0x7F]"
ProgramChangeMessage(nibble, program) ==
    <<BitOr(STATUS_PROGRAM_CHANGE, nibble), And7F(program)>>

\* "[0xB0 | (channel & 0x0F), controller & 0x7F, value & 0x7F]" and the
\* Note On / Note Off messages built the same way
ThreeByteMessage(status, nibble, data1, data2) ==
    <<BitOr(status, nibble), And7F(data1), And7F(data2)>>

\* a command path that takes PITCH_BEND lines as well
UnrecognizedCommand_PitchBend(parts) ==
    IF parts[1] = W_PITCH_BEND /\ Len(parts) >= 3 /\ ParseInt(parts[2]).ok
       /\ ParseInt(parts[3]).ok
    THEN <<<<BitOr(STATUS_PITCH_BEND, ChannelNibble(ParseInt(parts[2]).val)),
             And7F(ParseInt(parts[3]).val),
             And7F(ParseInt(parts[3]).val \div 128)>>>>
    ELSE <<>>

\* no branch of the if/elif chain matches the line: nothing is sent
UnrecognizedCommand(parts) == <<>>

\* parse_midi_command(line) on a bridge whose midi_out is out: the sequence
\* of messages handed to midi_out.send_message (none or one).  A ValueError
\* of int() is caught by the except clause and nothing is sent.
parse_midi_command(line, out) ==
    LET parts == Split(Strip(line))
        n == Len(parts)
        cmd == parts[1]
        a1 == ParseInt(parts[2])
        a2 == ParseInt(parts[3])
        a3 == ParseInt(parts[4])
    IN  IF parts = <<>> \/ out = "None" THEN <<>>
        ELSE IF cmd = W_CC /\ n >= 4 THEN
          IF a1.ok /\ a2.ok /\ a3.ok
          THEN <<ThreeByteMessage(STATUS_CC, ChannelNibble(a1.val), a2.val,
                                  a3.val)>>
          ELSE <<>>
        ELSE IF cmd = W_NOTE_ON /\ n >= 4 THEN
          IF a1.ok /\ a2.ok /\ a3.ok
          THEN <<ThreeByteMessage(STATUS_NOTE_ON, ChannelNibble(a1.val),
                                  a2.val, a3.val)>>
          ELSE <<>>
        ELSE IF cmd = W_NOTE_OFF /\ n >= 3 THEN
          IF a1.ok /\ a2.ok
          THEN <<ThreeByteMessage(STATUS_NOTE_OFF, ChannelNibble(a1.val),
                                  a2.val, 0)>>
          ELSE <<>>
        ELSE IF cmd = W_PROGRAM_CHANGE /\ n >= 3 THEN
          IF a1.ok /\ a2.ok
          THEN <<ProgramChangeMessage(ChannelNibble(a1.val), a2.val)>>
          ELSE <<>>
        ELSE UnrecognizedCommand(parts)

RECURSIVE FrameLines_FlushTail(_)
\* a framing loop that also hands on what follows the last newline
FrameLines_FlushTail(buf) ==
    IF \E i \in 1..Len(buf) : buf[i] = NL
    THEN LET i == CHOOSE k \in 1..Len(buf) :
                      /\ buf[k] = NL
                      /\ \A j \in 1..(k - 1) : buf[j] # NL
             r == FrameLines_FlushTail(SubSeq(buf, i + 1, Len(buf)))
         IN  [lines |-> <<SubSeq(buf, 1, i - 1)>> \o r.lines, rest |-> r.rest]
    ELSE [lines |-> <<buf>>, rest |-> <<>>]

RECURSIVE FrameLines(_)
\* the inner loop of socket_listener: while '\n' in buffer, split off the
\* text before the first newline.  lines: the lines split off, in order;
\* rest: what stays in the buffer.
FrameLines(buf) ==
    IF \E i \in 1..Len(buf) : buf[i] = NL
    THEN LET i == CHOOSE k \in 1..Len(buf) :
                      /\ buf[k] = NL
                      /\ \A j \in 1..(k - 1) : buf[j] # NL
             r == FrameLines(SubSeq(buf, i + 1, Len(buf)))
         IN  [lines |-> <<SubSeq(buf, 1, i - 1)>> \o r.lines, rest |-> r.rest]
    ELSE [lines |-> <<>>, rest |-> buf]

RECURSIVE DispatchLines(_, _)
\* "if line: self.parse_midi_command(line)" over the lines of one chunk:
\* the send_message calls made, in order, each with the line it came from
\* and the state of the output port it was made on
DispatchLines(lines, out) ==
    IF lines = <<>> THEN <<>>
    ELSE LET sends == IF Head(lines) # <<>>
                      THEN parse_midi_command(Head(lines), out) ELSE <<>>
         IN  [i \in 1..Len(sends) |->
                 [line |-> Head(lines), msg |-> sends[i], port |-> out]]
             \o DispatchLines(Tail(lines), out)

(***************************************************************************)
(* Inputs of the model.                                                    *)
(***************************************************************************)
\* -i / -o arguments: -1 is "auto-select", 0 an explicit index
DeviceIds == {-1, 0}
\* lengths of get_ports()
PortCounts == {0, 1}

L_CC == W_CC \o SP \o <<"1">> \o SP \o <<"2">> \o SP \o <<"3">>
L_NONNUM == W_CC \o SP \o <<"1">> \o SP \o <<"x">> \o SP \o <<"3">>
L_ACCENT == <<"Z", EAcute>>

\* the lines the socket peer sends (each followed by a newline): a
\* well-formed command, a malformed one, and one with a two-byte character
SocketLines == {L_CC, L_NONNUM, L_ACCENT}

\* the messages the device runtime delivers to the callback
HardwareMessages == {<<144, 60, 100>>, <<144, 60, 0>>}

\* socket.recv(1024)
RecvSize == 1024

(***************************************************************************)
(* State.                                                                  *)
(***************************************************************************)
VARIABLES
    input_device_id,    \* self.input_device_id
    output_device_id,   \* self.output_device_id
    available_inputs,   \* len(self.midi_in.get_ports())
    available_outputs,  \* len(self.midi_out.get_ports())
    running,            \* self.running
    midi_in,            \* self.midi_in: "None", or the port's state
    midi_out,           \* self.midi_out: "None", or the port's state
    sock,               \* self.sock: "None", "created", "connected", "closed"
    mainPc,             \* position of the main thread in run()
    listenerPc,         \* position of the listener thread
    listenerExit,       \* how socket_listener left its loop
    buffer,             \* socket_listener's local buffer
    wire,               \* bytes the peer has sent and recv has not returned
    peer,               \* the peer's end: "open", "closed", "reset"
    sentLines,          \* the lines the peer has sent, in order
    hwEvents,           \* number of midi_callback invocations
    sockOut,            \* sendall calls of midi_callback, in order
    hwSent,             \* send_message calls of parse_midi_command, in order
    closeLog,           \* close calls issued, in order
    cleanups            \* number of completed cleanup() calls

vars == <<input_device_id, output_device_id, available_inputs,
          available_outputs, running, midi_in, midi_out, sock, mainPc,
          listenerPc, listenerExit, buffer, wire, peer, sentLines, hwEvents,
          sockOut, hwSent, closeLog, cleanups>>

configVars == <<available_inputs, available_outputs>>
envVars == <<wire, peer, sentLines>>
listenerVars == <<listenerPc, listenerExit, buffer, hwSent>>
callbackVars == <<hwEvents, sockOut>>

\* the process is gone once run() has returned or an exception or
\* sys.exit() has left it
Alive == mainPc \notin {"stopped", "exited", "crashed"}

Inputs == Len(sentLines) + hwEvents

\* the status the process has ended with: 0 when main() returns after
\* run(), 1 after sys.exit(1) and after an uncaught exception
ExitStatus == IF mainPc = "stopped" THEN 0 ELSE 1

\* __init__
Init ==
    /\ input_device_id \in DeviceIds
    /\ output_device_id \in DeviceIds
    /\ available_inputs \in PortCounts
    /\ available_outputs \in PortCounts
    /\ running = TRUE
    /\ midi_in = "None"
    /\ midi_out = "None"
    /\ sock = "None"
    /\ mainPc = "init_in"
    /\ listenerPc = "none"
    /\ listenerExit = "none"
    /\ buffer = <<>>
    /\ wire = <<>>
    /\ peer = "open"
    /\ sentLines = <<>>
    /\ hwEvents = 0
    /\ sockOut = <<>>
    /\ hwSent = <<>>
    /\ closeLog = <<>>
    /\ cleanups = 0

(***************************************************************************)
(* Main thread: run(), init_midi(), connect_socket(), cleanup().           *)
(***************************************************************************)
\* an auto-selection that leaves the index as given
AutoSelect_Keep(device_id, ports) == device_id

\* "if self.input_device_id < 0:" with ports available the index becomes 0
AutoSelect(device_id, ports) ==
    IF device_id < 0 /\ ports > 0 THEN 0 ELSE device_id

\* an open failure that is reported and skipped: startup goes on
OpenFailurePc_Skip(next) == next

\* where the main thread is after open_port() has raised: nothing catches
\* the exception, it leaves init_midi(), run() and main()
OpenFailurePc(next) == "crashed"

\* init_midi, input half.  open_port may raise; nothing catches it.
InitMidiInput ==
    /\ mainPc = "init_in"
    /\ LET id == AutoSelect(input_device_id, available_inputs)
           absent == input_device_id < 0 /\ available_inputs = 0
       IN  /\ input_device_id' = id
           /\ IF absent
              THEN midi_in' = "None" /\ mainPc' = "init_out"
              ELSE IF id < available_inputs
              THEN \E ok \in BOOLEAN :
                     IF ok THEN midi_in' = "open" /\ mainPc' = "init_out"
                     ELSE /\ midi_in' = "unopened"
                          /\ mainPc' = OpenFailurePc("init_out")
              ELSE midi_in' = "unopened" /\ mainPc' = "init_out"
    /\ UNCHANGED <<output_device_id, configVars, running, midi_out, sock,
                   envVars, listenerVars, callbackVars, closeLog, cleanups>>

\* init_midi, output half
InitMidiOutput ==
    /\ mainPc = "init_out"
    /\ LET id == AutoSelect(output_device_id, available_outputs)
           absent == output_device_id < 0 /\ available_outputs = 0
       IN  /\ output_device_id' = id
           /\ IF absent
              THEN midi_out' = "None" /\ mainPc' = "mksock"
              ELSE IF id < available_outputs
              THEN \E ok \in BOOLEAN :
                     IF ok THEN midi_out' = "open" /\ mainPc' = "mksock"
                     ELSE /\ midi_out' = "unopened"
                          /\ mainPc' = OpenFailurePc("mksock")
              ELSE midi_out' = "unopened" /\ mainPc' = "mksock"
    /\ UNCHANGED <<input_device_id, configVars, running, midi_in, sock,
                   envVars, listenerVars, callbackVars, closeLog, cleanups>>

\* connect_socket: self.sock = socket.socket(...)
CreateSocket ==
    /\ mainPc = "mksock"
    /\ sock' = "created"
    /\ mainPc' = "connect"
    /\ UNCHANGED <<input_device_id, output_device_id, configVars, running,
                   midi_in, midi_out, envVars, listenerVars, callbackVars,
                   closeLog, cleanups>>

\* a connect failure that is reported and then ignored
ConnectFailurePc_Continue == "spawn"

\* where the main thread is after connect() has raised: the except clause
\* prints and calls sys.exit(1)
ConnectFailurePc == "exited"

\* connect_socket: self.sock.connect(...); sys.exit(1) when it raises
ConnectSocket ==
    /\ mainPc = "connect"
    /\ \E ok \in BOOLEAN :
         IF ok THEN sock' = "connected" /\ mainPc' = "spawn"
         ELSE sock' = sock /\ mainPc' = ConnectFailurePc
    /\ UNCHANGED <<input_device_id, output_device_id, configVars, running,
                   midi_in, midi_out, envVars, listenerVars, callbackVars,
                   closeLog, cleanups>>

\* run: "if self.midi_out:" start the listener thread
StartListener ==
    /\ mainPc = "spawn"
    /\ listenerPc' = IF midi_out # "None" THEN "check" ELSE listenerPc
    /\ mainPc' = "wait"
    /\ UNCHANGED <<input_device_id, output_device_id, configVars, running,
                   midi_in, midi_out, sock, envVars, listenerExit, buffer,
                   hwSent, callbackVars, closeLog, cleanups>>

\* run: "while self.running: time.sleep(1)" finds the flag false
MainWaitExit ==
    /\ mainPc = "wait"
    /\ ~running
    /\ mainPc' = "cleanup"
    /\ UNCHANGED <<input_device_id, output_device_id, configVars, running,
                   midi_in, midi_out, sock, envVars, listenerVars,
                   callbackVars, closeLog, cleanups>>

\* run: KeyboardInterrupt during the wait
KeyboardInterrupt ==
    /\ mainPc = "wait"
    /\ mainPc' = "cleanup"
    /\ UNCHANGED <<input_device_id, output_device_id, configVars, running,
                   midi_in, midi_out, sock, envVars, listenerVars,
                   callbackVars, closeLog, cleanups>>

\* the effect of close_port() / close() on a handle
Closed(h) == IF h \in {"open", "connected"} THEN "closed" ELSE h

\* a close that fails on a handle that is closed already
CloseRaises_OnClosed(h) == h = "closed"

\* whether close_port() / close() raises on a handle in state h
CloseRaises(h) == FALSE

\* a cleanup that closes the output port before the input port
CleanupOrder_Swapped == <<"out", "in", "sock">>

\* the order in which cleanup() visits the handles
CleanupOrder == <<"in", "out", "sock">>

\* a cleanup that writes a closing line to the socket from the main thread
CleanupFlag_Goodbye ==
    /\ mainPc = "cleanup"
    /\ running' = FALSE
    /\ mainPc' = "close1"
    /\ sockOut' = Append(sockOut, [msg |-> <<>>, data |-> <<"B", "Y", "E", NL>>,
                                   ok |-> sock = "connected"])
    /\ UNCHANGED <<input_device_id, output_device_id, configVars, midi_in,
                   midi_out, sock, envVars, listenerVars, hwEvents,
                   closeLog, cleanups>>

\* cleanup: self.running = False
CleanupFlag ==
    /\ mainPc = "cleanup"
    /\ running' = FALSE
    /\ mainPc' = "close1"
    /\ UNCHANGED <<input_device_id, output_device_id, configVars, midi_in,
                   midi_out, sock, envVars, listenerVars, callbackVars,
                   closeLog, cleanups>>

Handle(which) ==
    IF which = "in" THEN midi_in
    ELSE IF which = "out" THEN midi_out ELSE sock

\* "if handle: handle.close()" for one handle; the log grows when the
\* close call is issued
CloseHandle(which) ==
    /\ midi_in' = IF which = "in" THEN Closed(midi_in) ELSE midi_in
    /\ midi_out' = IF which = "out" THEN Closed(midi_out) ELSE midi_out
    /\ sock' = IF which = "sock" THEN Closed(sock) ELSE sock
    /\ closeLog' = IF Handle(which) # "None"
                   THEN Append(closeLog, which) ELSE closeLog

\* cleanup: the three "if handle: close" statements, one per step; an
\* exception raised by a close leaves run() through its finally clause
CleanupClose(k) ==
    /\ mainPc = <<"close1", "close2", "close3">>[k]
    /\ CloseHandle(CleanupOrder[k])
    /\ IF CloseRaises(Handle(CleanupOrder[k]))
       THEN mainPc' = "crashed" /\ cleanups' = cleanups
       ELSE /\ mainPc' = <<"close2", "close3", "stopped">>[k]
            /\ cleanups' = IF k = 3 THEN cleanups + 1 ELSE cleanups
    /\ UNCHANGED <<input_device_id, output_device_id, configVars, running,
                   envVars, listenerVars, callbackVars>>

(***************************************************************************)
(* Hardware callback context: midi_callback().                             *)
(***************************************************************************)
\* whether sendall() on the socket succeeds: it raises on a socket that is
\* not connected, was closed, or whose peer is gone
SendallOk == sock = "connected" /\ peer = "open"

\* a callback that reports the failed write and leaves the flag alone
RunningAfterWrite_Kept(ok) == running

\* "if self.sock:" sendall; on an exception self.running = False.
\* The value of running after the callback has made the write attempt.
RunningAfterWrite(ok) == IF ok THEN running ELSE FALSE

\* midi_callback((message, deltatime)); the callback is registered on an
\* open input port
MidiCallback(message) ==
    /\ Alive
    /\ midi_in = "open"
    /\ Inputs < MaxInputs
    /\ hwEvents' = hwEvents + 1
    /\ LET formatted == format_midi_message(message)
       IN  IF formatted.tag = "line" /\ sock # "None"
           THEN /\ sockOut' = Append(sockOut,
                                     [msg |-> message,
                                      data |-> Encode(formatted.line),
                                      ok |-> SendallOk])
                /\ running' = RunningAfterWrite(SendallOk)
           ELSE UNCHANGED <<sockOut, running>>
    /\ UNCHANGED <<input_device_id, output_device_id, configVars, midi_in,
                   midi_out, sock, mainPc, envVars, listenerVars, closeLog,
                   cleanups>>

(***************************************************************************)
(* Listener thread: socket_listener().                                     *)
(***************************************************************************)
\* "while self.running:"
ListenerCheck ==
    /\ Alive
    /\ listenerPc = "check"
    /\ IF running
       THEN listenerPc' = "recv" /\ listenerExit' = listenerExit
       ELSE listenerPc' = "done" /\ listenerExit' = "flag"
    /\ UNCHANGED <<input_device_id, output_device_id, configVars, running,
                   midi_in, midi_out, sock, mainPc, envVars, buffer, hwSent,
                   callbackVars, closeLog, cleanups>>

\* a read loop that arms the flag again when it ends
RunningAfterBreak_Rearmed == TRUE

\* the value of running when socket_listener leaves its loop through
\* "break" (empty read, or exception)
RunningAfterBreak == running

\* the send_message calls with their outcomes: oks[i] is FALSE where the
\* device layer raises
Attempts(sends, oks) ==
    [i \in 1..Len(sends) |->
        [line |-> sends[i].line, msg |-> sends[i].msg, port |-> sends[i].port,
         ok |-> oks[i]]]

\* a failed send_message that is taken as fatal for the bridge
RunningAfterSend_Cleared(oks) ==
    IF \E i \in 1..Len(oks) : ~oks[i] THEN FALSE ELSE running

\* parse_midi_command: "except Exception as e: print(...)"; the flag is
\* left as it is, whatever the outcomes of the sends
RunningAfterSend(oks) == running

\* one pass of the loop body on a chunk of n bytes returned by recv
ListenerChunk(n) ==
    LET chunk == SubSeq(wire, 1, n)
        d == Decode(chunk)
        framed == FrameLines(buffer \o d.text)
        sends == DispatchLines(framed.lines, midi_out)
    IN  /\ wire' = SubSeq(wire, n + 1, Len(wire))
        /\ IF d.ok
           THEN \E oks \in [1..Len(sends) -> BOOLEAN] :
                /\ buffer' = framed.rest
                /\ hwSent' = hwSent \o Attempts(sends, oks)
                /\ listenerPc' = "check"
                /\ running' = RunningAfterSend(oks)
                /\ UNCHANGED listenerExit
           ELSE /\ listenerPc' = "done"
                /\ listenerExit' = "error"
                /\ running' = RunningAfterBreak
                /\ UNCHANGED <<buffer, hwSent>>
        /\ UNCHANGED <<peer, sentLines>>

\* recv returns b"" (peer closed) or raises (connection reset, socket
\* closed by cleanup)
ListenerBreak(how) ==
    /\ listenerPc' = "done"
    /\ listenerExit' = how
    /\ running' = RunningAfterBreak
    /\ UNCHANGED <<buffer, hwSent, envVars>>

\* "data = self.sock.recv(1024)" and the rest of the loop body
ListenerRecv ==
    /\ Alive
    /\ listenerPc = "recv"
    /\ \/ /\ sock = "closed"
          /\ ListenerBreak("error")
       \/ /\ sock = "connected"
          /\ peer = "reset"
          /\ ListenerBreak("error")
       \/ /\ sock = "connected"
          /\ peer = "closed"
          /\ wire = <<>>
          /\ ListenerBreak("eof")
       \/ /\ sock = "connected"
          /\ peer # "reset"
          /\ wire # <<>>
          /\ \E n \in 1..Min(Len(wire), RecvSize) : ListenerChunk(n)
    /\ UNCHANGED <<input_device_id, output_device_id, configVars, midi_in,
                   midi_out, sock, mainPc, callbackVars, closeLog, cleanups>>

(***************************************************************************)
(* Environment: the socket peer.                                           *)
(***************************************************************************)
PeerSend(line) ==
    /\ Alive
    /\ sock = "connected"
    /\ peer = "open"
    /\ Inputs < MaxInputs
    /\ wire' = wire \o Encode(line \o <<NL>>)
    /\ sentLines' = Append(sentLines, line)
    /\ UNCHANGED <<input_device_id, output_device_id, configVars, running,
                   midi_in, midi_out, sock, mainPc, peer, listenerVars,
                   callbackVars, closeLog, cleanups>>

\* the peer closes its end: an orderly close, or one that resets the
\* connection
PeerClose(how) ==
    /\ Alive
    /\ sock = "connected"
    /\ peer = "open"
    /\ peer' = how
    /\ UNCHANGED <<input_device_id, output_device_id, configVars, running,
                   midi_in, midi_out, sock, mainPc, wire, sentLines,
                   listenerVars, callbackVars, closeLog, cleanups>>

(***************************************************************************)
(* The bridge.                                                             *)
(***************************************************************************)
MainStep ==
    \/ InitMidiInput
    \/ InitMidiOutput
    \/ CreateSocket
    \/ ConnectSocket
    \/ StartListener
    \/ MainWaitExit
    \/ CleanupFlag
    \/ \E k \in 1..3 : CleanupClose(k)

ListenerStep ==
    \/ ListenerCheck
    \/ ListenerRecv

Next ==
    \/ MainStep
    \/ KeyboardInterrupt
    \/ ListenerStep
    \/ \E m \in HardwareMessages : MidiCallback(m)
    \/ \E l \in SocketLines : PeerSend(l)
    \/ \E how \in {"closed", "reset"} : PeerClose(how)

Spec == Init /\ [][Next]_vars

\* the listener thread has a step to take: it is about to test the flag, or
\* its recv can return (data, end of stream or an error)
ListenerReady ==
    /\ Alive
    /\ \/ listenerPc = "check"
       \/ /\ listenerPc = "recv"
          /\ \/ sock = "closed"
             \/ sock = "connected" /\ (peer # "open" \/ wire # <<>>)

\* weak fairness of the listener thread, written out: ListenerReady is
\* ENABLED ListenerStep, and the steps that move listenerPc from a ready
\* state are the steps of ListenerStep
FairListener ==
    \/ []<>(~ListenerReady)
    \/ []<><<listenerPc' # listenerPc>>_vars

\* the interpreter runs every thread that can run: the main thread and the
\* listener thread each take their next step; the peer, the device and the
\* user need not act
FairSpec == Spec /\ WF_vars(MainStep) /\ FairListener

(***************************************************************************)
(* cleanup() called again on a bridge that run() has already shut down.    *)
(***************************************************************************)
\* number of cleanup() calls made on one bridge
MaxCleanups == 2

\* a caller invokes bridge.cleanup() after run() has returned: the whole
\* method, no other thread of the bridge being left
CleanupAgain ==
    /\ mainPc = "stopped"
    /\ cleanups < MaxCleanups
    /\ running' = FALSE
    /\ midi_in' = Closed(midi_in)
    /\ midi_out' = Closed(midi_out)
    /\ sock' = Closed(sock)
    /\ closeLog' = closeLog \o
           SelectSeq(CleanupOrder, LAMBDA w : Handle(w) # "None")
    /\ mainPc' = IF \E k \in 1..3 : /\ Handle(CleanupOrder[k]) # "None"
                                    /\ CloseRaises(Handle(CleanupOrder[k]))
                 THEN "crashed" ELSE mainPc
    /\ cleanups' = cleanups + 1
    /\ UNCHANGED <<input_device_id, output_device_id, configVars, envVars,
                   listenerVars, callbackVars>>

ApiNext ==
    \/ Next
    \/ CleanupAgain

ApiSpec == Init /\ [][ApiNext]_vars

(***************************************************************************)
(* The codec on its own: one hardware message or one socket line at a      *)
(* time through a Running bridge, over wide input sets.                    *)
(***************************************************************************)
KnownVerbs == {W_NOTE_ON, W_NOTE_OFF, W_CC, W_PROGRAM_CHANGE}

AllBytes == 0..127
SampleBytes == {0, 1, 9, 10, 99, 100, 127}
FewBytes == {0, 10, 127}

\* Note On messages: every channel, every note and every velocity
CodecNoteOn ==
    {<<STATUS_NOTE_ON + ch, d[1], d[2]>> :
        ch \in 0..15,
        d \in (AllBytes \X SampleBytes) \cup (SampleBytes \X AllBytes)}

\* every status byte, three-byte and two-byte messages
CodecOther ==
    {<<st, a, b>> : st \in 128..255, a \in FewBytes, b \in FewBytes}
    \cup {<<st, a>> : st \in 192..207, a \in SampleBytes}

\* Pitch Bend messages: every pair of data bytes on channel 0, sampled
\* pairs on every channel
CodecPitchBend ==
    {<<STATUS_PITCH_BEND, lsb, msb>> : lsb \in AllBytes, msb \in AllBytes}
    \cup {<<STATUS_PITCH_BEND + ch, lsb, msb>> :
              ch \in 0..15, lsb \in {0, 1, 64, 127}, msb \in {0, 1, 64, 127}}

\* every status byte with one byte and with two bytes present
CodecShort ==
    {<<st>> : st \in 128..255}
    \cup {<<st, a>> : st \in 128..255, a \in FewBytes}

\* messages whose data bytes have the high bit set
CodecRaw ==
    {<<st, a, b>> :
        st \in {STATUS_NOTE_OFF, STATUS_CC, STATUS_PROGRAM_CHANGE,
                 STATUS_PITCH_BEND},
        a \in {128, 255}, b \in {128, 255}}

CodecMessages ==
    CodecNoteOn \cup CodecOther \cup CodecPitchBend \cup CodecShort
    \cup CodecRaw

\* command lines with every channel 1..16
CodecLines ==
    {v \o SP \o Str(c) \o SP \o Str(a) \o SP \o Str(b) :
        v \in KnownVerbs, c \in 1..16, a \in FewBytes, b \in FewBytes}

\* NOTE_OFF and PROGRAM_CHANGE lines with the two arguments they take, and
\* the line "NOTE_ON 1 60 100"
CodecShortLines ==
    {v \o SP \o Str(c) \o SP \o Str(a) :
        v \in {W_NOTE_OFF, W_PROGRAM_CHANGE}, c \in 1..16, a \in FewBytes}
    \cup {W_NOTE_ON \o SP \o Str(1) \o SP \o Str(60) \o SP \o Str(100)}

\* lines with the verbs the bridge writes and does not read
CodecOneWayLines ==
    {W_PITCH_BEND \o SP \o Str(c) \o SP \o Str(b) :
        c \in {1, 16}, b \in {0, 8192, 16383}}
    \cup {v \o SP \o c \o SP \o Str(a) \o SP \o Str(b) :
              v \in {W_PITCH_BEND, W_UNKNOWN},
              c \in {Str(1), Hex02(144), Hex02(248)},
              a \in FewBytes, b \in FewBytes}

\* a Running bridge with both ports open
CodecInit ==
    /\ input_device_id = 0
    /\ output_device_id = 0
    /\ available_inputs = 1
    /\ available_outputs = 1
    /\ running = TRUE
    /\ midi_in = "open"
    /\ midi_out = "open"
    /\ sock = "connected"
    /\ mainPc = "wait"
    /\ listenerPc = "check"
    /\ listenerExit = "none"
    /\ buffer = <<>>
    /\ wire = <<>>
    /\ peer = "open"
    /\ sentLines = <<>>
    /\ hwEvents = 0
    /\ sockOut = <<>>
    /\ hwSent = <<>>
    /\ closeLog = <<>>
    /\ cleanups = 0

\* the peer sends back the line the bridge has just written
PeerEcho ==
    /\ sentLines = <<>>
    /\ wire = <<>>
    /\ Len(sockOut) = 1
    /\ sockOut[1].ok
    /\ LET text == Decode(sockOut[1].data).text
       IN  /\ wire' = sockOut[1].data
           /\ sentLines' = <<SubSeq(text, 1, Len(text) - 1)>>
    /\ UNCHANGED <<input_device_id, output_device_id, configVars, running,
                   midi_in, midi_out, sock, mainPc, peer, listenerVars,
                   callbackVars, closeLog, cleanups>>

\* recv returns everything the peer has sent
ListenerRecvAll ==
    /\ listenerPc = "recv"
    /\ wire # <<>>
    /\ ListenerChunk(Len(wire))
    /\ UNCHANGED <<input_device_id, output_device_id, configVars, midi_in,
                   midi_out, sock, mainPc, callbackVars, closeLog, cleanups>>

CodecNext ==
    \/ Inputs = 0 /\ \E m \in CodecMessages : MidiCallback(m)
    \/ Inputs = 0 /\ \E l \in CodecLines : PeerSend(l)
    \/ Inputs = 0 /\ \E l \in CodecShortLines \cup CodecOneWayLines :
                         PeerSend(l)
    \/ PeerEcho
    \/ ListenerCheck
    \/ ListenerRecvAll

CodecSpec == CodecInit /\ [][CodecNext]_vars

(***************************************************************************)
(* parse_midi_command on its own: one command line, with arguments of any  *)
(* sign and size, handed to a Running bridge.                              *)
(***************************************************************************)
\* channel and data arguments inside and outside their ranges
ChannelArgs == {-1, 0, 1, 16, 17, 300}
DataArgs == {-129, -1, 0, 127, 128, 200, 300}

\* an integer of one digit more than int() converts
HugeToken == [i \in 1..(IntMaxStrDigits + 1) |-> "9"]

ChannelTokens == {Str(c) : c \in ChannelArgs} \cup {HugeToken}
DataTokens == {Str(d) : d \in DataArgs} \cup {HugeToken}

ParseLines ==
    {v \o SP \o c \o SP \o a \o SP \o b :
        v \in KnownVerbs, c \in ChannelTokens, a \in DataTokens,
        b \in DataTokens}

\* "if line: self.parse_midi_command(line)" for a line socket_listener has
\* split off its buffer
ParseCommand(line) ==
    /\ listenerPc = "check"
    /\ running
    /\ sentLines' = Append(sentLines, line)
    /\ LET sends == DispatchLines(<<line>>, midi_out)
       IN  \E oks \in [1..Len(sends) -> BOOLEAN] :
             /\ hwSent' = hwSent \o Attempts(sends, oks)
             /\ running' = RunningAfterSend(oks)
    /\ UNCHANGED <<input_device_id, output_device_id, configVars,
                   midi_in, midi_out, sock, mainPc, wire, peer, listenerPc,
                   listenerExit, buffer, callbackVars, closeLog, cleanups>>

ParseNext == Inputs = 0 /\ \E l \in ParseLines : ParseCommand(l)

ParseSpec == CodecInit /\ [][ParseNext]_vars

(***************************************************************************)
(* The framing of the byte stream: complete lines, empty lines and a last  *)
(* fragment without a newline, received in chunks of any size by a Running *)
(* bridge.                                                                 *)
(***************************************************************************)
\* the lines the peer sends, each followed by a newline: a command and the
\* empty line
FramingLines == {L_CC, <<>>}

\* what the peer may send last without a newline before it closes
Fragments == {L_CC, <<"C">>}

\* the peer sends text that does not end in a newline and closes its end
PeerSendFragment(fragment) ==
    /\ Alive
    /\ sock = "connected"
    /\ peer = "open"
    /\ wire' = wire \o Encode(fragment)
    /\ peer' = "closed"
    /\ UNCHANGED <<input_device_id, output_device_id, configVars, running,
                   midi_in, midi_out, sock, mainPc, sentLines, listenerVars,
                   callbackVars, closeLog, cleanups>>

FramingNext ==
    \/ \E l \in FramingLines : PeerSend(l)
    \/ \E f \in Fragments : PeerSendFragment(f)
    \/ PeerClose("closed")
    \/ ListenerCheck
    \/ ListenerRecv

FramingSpec == CodecInit /\ [][FramingNext]_vars

(***************************************************************************)
(* Properties.                                                             *)
(***************************************************************************)
\* a sendall of the callback has raised
WriteFailed == \E i \in 1..Len(sockOut) : ~sockOut[i].ok

\* number of close calls issued on a handle
CloseCount(which) ==
    Cardinality({i \in 1..Len(closeLog) : closeLog[i] = which})

\* position of a handle in the shutdown order input port, output port, socket
CloseRank(which) ==
    IF which = "in" THEN 1 ELSE IF which = "out" THEN 2 ELSE 3

\* C1: when socket_listener has left its loop because recv returned no
\* bytes or because the read raised, the running flag is false.
C1_BreakClearsRunning ==
    listenerExit \in {"eof", "error"} => ~running

\* C2: whenever the bridge is Running (the main thread waits, the read loop
\* has been started) and the peer has closed the connection, eventually the
\* running flag is false, the main thread has left its wait and finished
\* shutdown, and each port that exists has been closed exactly once.
C2_PeerCloseShutsDown ==
    [](mainPc = "wait" /\ listenerPc # "none" /\ peer = "closed"
       => <>(/\ ~running
             /\ mainPc = "stopped"
             /\ midi_in # "None" => CloseCount("in") = 1
             /\ midi_out # "None" => CloseCount("out") = 1))

\* C3: a failed socket write of midi_callback clears the running flag in
\* that callback; the main thread then leaves its wait and completes
\* cleanup (a process that a failed startup has already ended never waits);
\* and the callback makes one write attempt per event at most.
C3_WriteFailureStops ==
    /\ [](WriteFailed => ~running)
    /\ [](Len(sockOut) <= hwEvents)
    /\ (WriteFailed ~> (\/ mainPc = "stopped" /\ cleanups = 1
                        \/ mainPc \in {"exited", "crashed"}))

C3_Witness ==
    /\ WriteFailed
    /\ peer = "closed"
    /\ mainPc = "stopped"
    /\ cleanups = 1
    /\ sock = "closed"

\* C4: with no output device (midi_out is None) the listener thread has
\* been started once the bridge is Running.
C4_ListenerStartedWithoutOutput ==
    (mainPc = "wait" /\ midi_out = "None") => listenerPc # "none"

\* C5: the close calls of shutdown are issued in the order input port,
\* output port, socket: no close is followed by a close of a handle that
\* comes earlier in (or at the same place of) that order.
C5_CloseOrder ==
    \A i, j \in 1..Len(closeLog) :
        i < j => CloseRank(closeLog[i]) < CloseRank(closeLog[j])

C5_Witness == closeLog = <<"in", "out", "sock">>

\* C6 as claimed: a second cleanup issues no close call on a handle that is
\* closed already.
C6_NoCloseOnClosedHandle ==
    [][CleanupAgain => closeLog' = closeLog]_vars

\* C6 as amended: a second cleanup of a shut-down bridge leaves the running
\* flag and the three handles as they were and raises nothing; the close
\* calls it issues again are no-ops.
C6_SecondCleanupChangesNothing ==
    [][CleanupAgain =>
          /\ running' = running
          /\ midi_in' = midi_in
          /\ midi_out' = midi_out
          /\ sock' = sock
          /\ mainPc' = "stopped"]_vars

C6_Witness ==
    /\ cleanups = 2
    /\ mainPc = "stopped"
    /\ closeLog = <<"in", "out", "sock", "in", "out", "sock">>

\* number of arguments a verb requires
RequiredArgs(verb) == IF verb \in {W_NOTE_ON, W_CC} THEN 3 ELSE 2

\* a line with an unknown verb, or a known verb with too few arguments or
\* with an argument that is no number
Malformed(line) ==
    LET parts == Split(line)
    IN  /\ parts # <<>>
        /\ \/ parts[1] \notin KnownVerbs
           \/ Len(parts) - 1 < RequiredArgs(parts[1])
           \/ \E i \in 2..(RequiredArgs(parts[1]) + 1) : ~ParseInt(parts[i]).ok

\* C7: while all the lines the peer has sent are malformed (the peer and
\* the socket being open), nothing has been sent to the hardware output,
\* the read loop has not exited, and the lines have not cleared the running
\* flag.
C7_MalformedLinesDropped ==
    (/\ sentLines # <<>>
     /\ \A i \in 1..Len(sentLines) : Malformed(sentLines[i])
     /\ sock = "connected"
     /\ peer = "open")
    => /\ hwSent = <<>>
       /\ listenerExit \notin {"eof", "error"}
       /\ (hwEvents = 0 /\ mainPc = "wait") => running

\* a Note On message with three bytes
IsNoteOn(m) == Len(m) = 3 /\ AndF0(m[1]) = STATUS_NOTE_ON

\* the tokens of the text a sendall call carried
Tokens(entry) == Split(Decode(entry.data).text)

\* C8: a Note On message with velocity 0 is written to the socket as the
\* line NOTE_OFF <ch+1> <note>, for every channel and note; bytes
\* [0x90, 60, 0] give "NOTE_OFF 1 60\n".
C8_NoteOnZeroIsNoteOff ==
    \A i \in 1..Len(sockOut) :
        LET m == sockOut[i].msg
            toks == Tokens(sockOut[i])
        IN  (IsNoteOn(m) /\ m[3] = 0) =>
              /\ sockOut[i].data =
                     W_NOTE_OFF \o SP \o Str(And0F(m[1]) + 1) \o SP
                     \o Str(m[2]) \o <<NL>>
              /\ Len(toks) = 3
              /\ toks[1] = W_NOTE_OFF
              /\ ParseInt(toks[2]) = [ok |-> TRUE, val |-> And0F(m[1]) + 1]
              /\ ParseInt(toks[3]) = [ok |-> TRUE, val |-> m[2]]
              /\ m = <<144, 60, 0>> =>
                   sockOut[i].data =
                       <<"N", "O", "T", "E", "_", "O", "F", "F", " ", "1",
                         " ", "6", "0", "\n">>

C8_Witness ==
    /\ Len(sockOut) = 1
    /\ sockOut[1].msg = <<159, 127, 0>>
    /\ Tokens(sockOut[1]) = <<W_NOTE_OFF, <<"1", "6">>, <<"1", "2", "7">>>>

\* the peer has echoed the line of the first hardware message and the
\* listener has read all of it
EchoRead ==
    /\ Len(sockOut) = 1
    /\ Len(sentLines) = 1
    /\ wire = <<>>
    /\ listenerPc = "check"

\* C9: the line written for a Note On message with velocity 1..127, fed to
\* the socket-command path, submits exactly the bytes of that message to
\* the hardware output.
C9_NoteOnRoundTrip ==
    (EchoRead /\ IsNoteOn(sockOut[1].msg) /\ sockOut[1].msg[3] >= 1)
    => /\ Len(hwSent) = 1
       /\ hwSent[1].msg = sockOut[1].msg

C9_Witness ==
    /\ EchoRead
    /\ sockOut[1].msg = <<159, 127, 100>>
    /\ Len(hwSent) = 1
    /\ hwSent[1].msg = <<159, 127, 100>>

\* status types whose line carries a channel
ChannelTypes == {STATUS_NOTE_OFF, STATUS_NOTE_ON, STATUS_CC,
                 STATUS_PROGRAM_CHANGE, STATUS_PITCH_BEND}

\* C10: every line written to the socket that carries a channel carries
\* the status low nibble plus one, in 1..16; every command line with a
\* channel c in 1..16 that was submitted to the hardware was submitted with
\* status low nibble c - 1.
C10_ChannelNormalization ==
    /\ \A i \in 1..Len(sockOut) :
          LET m == sockOut[i].msg
              c == ParseInt(Tokens(sockOut[i])[2])
          IN  AndF0(m[1]) \in ChannelTypes =>
                /\ c.ok
                /\ c.val \in 1..16
                /\ c.val = And0F(m[1]) + 1
    /\ \A i \in 1..Len(hwSent) :
          LET c == ParseInt(Split(hwSent[i].line)[2])
          IN  (c.ok /\ c.val \in 1..16) =>
                /\ And0F(hwSent[i].msg[1]) = c.val - 1
                /\ And0F(hwSent[i].msg[1]) \in 0..15

C10_Witness ==
    /\ sockOut = <<>>
    /\ Len(hwSent) = 1
    /\ hwSent[1].line = W_PROGRAM_CHANGE \o SP \o <<"1", "6">> \o SP
                        \o <<"1", "0">> \o SP \o <<"0">>
    /\ hwSent[1].msg = <<207, 10>>

\* a token that is an integer in text form, of any number of digits
IsIntLiteral(tok) ==
    IsDigitBody(IF tok # <<>> /\ Head(tok) \in {"+", "-"} THEN Tail(tok)
                ELSE tok)

\* a line with a known verb, the arguments the verb requires, each of them
\* an integer
IntegerCommand(line) ==
    LET parts == Split(line)
    IN  /\ parts # <<>>
        /\ parts[1] \in KnownVerbs
        /\ Len(parts) - 1 >= RequiredArgs(parts[1])
        /\ \A k \in 2..(RequiredArgs(parts[1]) + 1) : IsIntLiteral(parts[k])

\* C11: a command line with a known verb, enough arguments and integer
\* arguments of any size or sign is not rejected: one message is sent, its
\* data bytes are the arguments AND 0x7F (in 0..127), its status low nibble
\* is (channel - 1) AND 0x0F; "CC 1 200 300" is sent with controller 72 and
\* value 44.
C11_OutOfRangeArgsMasked ==
    (Len(sentLines) = 1 /\ IntegerCommand(sentLines[1])) =>
        LET parts == Split(sentLines[1])
            arg(k) == ParseInt(parts[k])
        IN  /\ Len(hwSent) = 1
            /\ \A k \in 2..(RequiredArgs(parts[1]) + 1) : arg(k).ok
            /\ hwSent[1].msg[1] % 16 = (arg(2).val - 1) % 16
            /\ hwSent[1].msg[2] = arg(3).val % 128
            /\ hwSent[1].msg[2] \in 0..127
            /\ parts[1] \in {W_CC, W_NOTE_ON} =>
                  /\ hwSent[1].msg[3] = arg(4).val % 128
                  /\ hwSent[1].msg[3] \in 0..127
            /\ sentLines[1] = W_CC \o SP \o Str(1) \o SP \o Str(200) \o SP
                              \o Str(300)
               => hwSent[1].msg = <<176, 72, 44>>

\* a Pitch Bend message with three bytes, the data bytes in 0..127
IsPitchBend(m) ==
    /\ Len(m) = 3
    /\ AndF0(m[1]) = STATUS_PITCH_BEND
    /\ m[2] \in 0..127
    /\ m[3] \in 0..127

\* C12: a Pitch Bend message [0xE0|ch, lsb, msb] is written as the line
\* PITCH_BEND <ch+1> <bend> with bend = msb * 128 + lsb, which lies in
\* 0..16383 and gives back msb and lsb (so distinct pairs give distinct
\* bends); msb 64, lsb 0 is written as bend 8192.
C12_PitchBendValue ==
    \A i \in 1..Len(sockOut) :
        LET m == sockOut[i].msg
            toks == Tokens(sockOut[i])
            bend == ParseInt(toks[3])
        IN  IsPitchBend(m) =>
              /\ sockOut[i].data =
                     W_PITCH_BEND \o SP \o Str(And0F(m[1]) + 1) \o SP
                     \o Str(m[3] * 128 + m[2]) \o <<NL>>
              /\ Len(toks) = 3
              /\ bend.ok
              /\ bend.val \in 0..16383
              /\ bend.val \div 128 = m[3]
              /\ bend.val % 128 = m[2]
              /\ m = <<224, 0, 64>> =>
                   sockOut[i].data =
                       <<"P", "I", "T", "C", "H", "_", "B", "E", "N", "D",
                         " ", "1", " ", "8", "1", "9", "2", "\n">>

C12_Witness ==
    /\ Len(sockOut) = 1
    /\ sockOut[1].msg = <<239, 127, 64>>
    /\ Tokens(sockOut[1]) =
           <<W_PITCH_BEND, <<"1", "6">>, <<"8", "3", "1", "9">>>>

\* the peer has sent one line and the listener has read all of it
LineRead == Len(sentLines) = 1 /\ wire = <<>>

\* a command line as the protocol defines it: a known verb, its arguments
\* as decimal numbers, channel in 1..16, data in 0..127
WellFormed(line) ==
    LET parts == Split(line)
    IN  /\ parts # <<>>
        /\ parts[1] \in KnownVerbs
        /\ Len(parts) - 1 >= RequiredArgs(parts[1])
        /\ \E c \in 1..16 : parts[2] = Str(c)
        /\ \A k \in 3..(RequiredArgs(parts[1]) + 1) :
              \E d \in 0..127 : parts[k] = Str(d)

\* the status byte a verb stands for, on channel nibble 0
VerbStatus(verb) ==
    IF verb = W_NOTE_ON THEN 144
    ELSE IF verb = W_NOTE_OFF THEN 128
    ELSE IF verb = W_CC THEN 176 ELSE 192

\* C13: a well-formed command line read by a bridge whose output port is
\* open causes exactly one hardware send: NOTE_ON c n v sends
\* [0x90+(c-1), n, v], CC c k v sends [0xB0+(c-1), k, v], NOTE_OFF c n sends
\* a three-byte Note Off [0x80+(c-1), n, _], PROGRAM_CHANGE c p sends the
\* two bytes [0xC0+(c-1), p]; "NOTE_ON 1 60 100" sends [0x90, 60, 100].
C13_CommandBytes ==
    (LineRead /\ WellFormed(sentLines[1])) =>
        LET parts == Split(sentLines[1])
            c == ParseInt(parts[2]).val
            d1 == ParseInt(parts[3]).val
        IN  /\ Len(hwSent) = 1
            /\ hwSent[1].line = sentLines[1]
            /\ hwSent[1].msg[1] = VerbStatus(parts[1]) + (c - 1)
            /\ hwSent[1].msg[2] = d1
            /\ parts[1] \in {W_NOTE_ON, W_CC} =>
                  /\ Len(hwSent[1].msg) = 3
                  /\ hwSent[1].msg[3] = ParseInt(parts[4]).val
            /\ parts[1] = W_NOTE_OFF =>
                  /\ Len(hwSent[1].msg) = 3
                  /\ hwSent[1].msg[3] \in 0..127
            /\ parts[1] = W_PROGRAM_CHANGE => Len(hwSent[1].msg) = 2
            /\ parts = <<W_NOTE_ON, <<"1">>, <<"6", "0">>, <<"1", "0", "0">>>>
               => hwSent[1].msg = <<144, 60, 100>>

C13_Witness ==
    /\ LineRead
    /\ sentLines[1] = W_PROGRAM_CHANGE \o SP \o <<"1", "6">> \o SP
                      \o <<"1", "2", "7">>
    /\ Len(hwSent) = 1
    /\ hwSent[1].msg = <<207, 127>>

\* the verbs of the lines the bridge writes and does not read
OneWayVerbs == {W_PITCH_BEND, W_UNKNOWN}

\* C14: a line whose verb is PITCH_BEND or UNKNOWN, with any arguments,
\* causes no hardware send, also when it is a line the bridge has written
\* itself: no send comes from such a line, and once the bridge has read
\* such a line nothing has been sent.
C14_OneWayVerbsNotAccepted ==
    /\ \A i \in 1..Len(hwSent) : Split(hwSent[i].line)[1] \notin OneWayVerbs
    /\ (LineRead /\ Split(sentLines[1])[1] \in OneWayVerbs) => hwSent = <<>>

C14_Witness ==
    /\ EchoRead
    /\ sockOut[1].msg = <<224, 0, 64>>
    /\ sentLines[1] = W_PITCH_BEND \o SP \o <<"1">> \o SP
                      \o <<"8", "1", "9", "2">>
    /\ buffer = <<>>
    /\ hwSent = <<>>

\* C15: encoding never fails: every non-empty hardware message, of any
\* status byte and with one, two or three bytes, has been written to the
\* (open) socket as a line that ends with a newline; a message whose status
\* is none of Note Off, Note On, Control Change, Program Change, Pitch Bend
\* gives UNKNOWN <status-hex> <data1> <data2> with 0 for a missing byte.
C15_EncodingNeverFails ==
    /\ Len(sockOut) = hwEvents
    /\ \A i \in 1..Len(sockOut) :
          LET m == sockOut[i].msg
              data == sockOut[i].data
          IN  /\ data[Len(data)] = NL
              /\ AndF0(m[1]) \notin ChannelTypes =>
                    data = W_UNKNOWN \o SP \o Hex02(m[1]) \o SP
                           \o Str(IF Len(m) >= 2 THEN m[2] ELSE 0) \o SP
                           \o Str(IF Len(m) >= 3 THEN m[3] ELSE 0) \o <<NL>>

\* C16: no write/write race: a step that writes to the socket is a step of
\* the hardware callback and of no other context; a step that sends to the
\* hardware output is a step of the listener thread and of no other
\* context.
C16_NoWriteWriteRace ==
    [][/\ sockOut' # sockOut =>
            /\ hwEvents' = hwEvents + 1
            /\ Len(sockOut') = Len(sockOut) + 1
            /\ mainPc' = mainPc
            /\ listenerPc' = listenerPc
            /\ hwSent' = hwSent
       /\ hwSent' # hwSent =>
            /\ listenerPc = "recv"
            /\ listenerPc' = "check"
            /\ mainPc' = mainPc
            /\ hwEvents' = hwEvents
            /\ sockOut' = sockOut]_vars

C16_Witness ==
    /\ Len(sockOut) = 1
    /\ sockOut[1].ok
    /\ Len(hwSent) = 1
    /\ mainPc = "stopped"

\* the connect of connect_socket has failed: the socket was created and
\* the main thread has left the connect call without a connection
ConnectFailed == sock = "created" /\ mainPc # "connect"

\* C17: when the connect fails at startup the bridge never enters Running:
\* the process has exited with a non-zero status, no listener thread has
\* been started, nothing was sent to the hardware, and from then on no
\* connect is tried again and nothing of the bridge changes.
C17_ConnectFailureIsFatal ==
    /\ [](ConnectFailed =>
            /\ mainPc = "exited"
            /\ ExitStatus # 0
            /\ listenerPc = "none"
            /\ hwSent = <<>>)
    /\ [][ConnectFailed =>
            /\ mainPc' = mainPc
            /\ sock' = sock
            /\ listenerPc' = listenerPc]_vars

C17_Witness ==
    /\ ConnectFailed
    /\ mainPc = "exited"
    /\ midi_in = "open"
    /\ midi_out = "open"
    /\ listenerPc = "none"

\* C18: when the process has ended on a failed connect, the running flag is
\* false and the ports that initialization opened have been closed.
C18_ConnectFailureShutsDown ==
    (ConnectFailed /\ ~Alive) =>
        /\ ~running
        /\ midi_in # "open"
        /\ midi_out # "open"

\* C19: auto-selection, for input and for output alike: with no explicit
\* index (index below 0) and at least one port available, the index becomes
\* 0 and that port is the one opened (the bridge goes on unless the open
\* call itself fails); with no port available the handle is absent, nothing
\* is opened or later closed for that direction, and the bridge goes on to
\* start: with the input absent and the output open the listener thread has
\* been started once the main thread waits.
C19_AutoSelection ==
    /\ [][(mainPc = "init_in" /\ mainPc' # mainPc /\ input_device_id < 0) =>
            IF available_inputs > 0
            THEN /\ input_device_id' = 0
                 /\ \/ midi_in' = "open" /\ mainPc' = "init_out"
                    \/ mainPc' = "crashed"
            ELSE midi_in' = "None" /\ mainPc' = "init_out"]_vars
    /\ [][(mainPc = "init_out" /\ mainPc' # mainPc /\ output_device_id < 0) =>
            IF available_outputs > 0
            THEN /\ output_device_id' = 0
                 /\ \/ midi_out' = "open" /\ mainPc' = "mksock"
                    \/ mainPc' = "crashed"
            ELSE midi_out' = "None" /\ mainPc' = "mksock"]_vars
    /\ [](mainPc # "init_in" /\ midi_in = "None" => CloseCount("in") = 0)
    /\ [](mainPc \notin {"init_in", "init_out"} /\ midi_out = "None"
            => CloseCount("out") = 0 /\ hwSent = <<>>)
    /\ [](mainPc = "wait" /\ midi_in = "None" /\ midi_out = "open"
            => listenerPc # "none")

\* the output is absent and the input direction has carried a message
C19_Witness ==
    /\ midi_out = "None"
    /\ output_device_id < 0
    /\ midi_in = "open"
    /\ input_device_id = 0
    /\ mainPc = "wait"
    /\ Len(sockOut) = 1
    /\ sockOut[1].ok

RECURSIVE StreamBytes(_)
\* number of bytes the peer has put on the stream for these lines
StreamBytes(lines) ==
    IF lines = <<>> THEN 0
    ELSE Len(Encode(Head(lines))) + 1 + StreamBytes(Tail(lines))

\* the lines of the stream whose last byte recv has returned
LinesRead ==
    LET consumed == StreamBytes(sentLines) - Len(wire)
        k == CHOOSE n \in 0..Len(sentLines) :
                 /\ StreamBytes(SubSeq(sentLines, 1, n)) <= consumed
                 /\ \A j \in (n + 1)..Len(sentLines) :
                       StreamBytes(SubSeq(sentLines, 1, j)) > consumed
    IN  SubSeq(sentLines, 1, k)

\* the lines and messages of a sequence of send_message calls
SendsOf(calls) == [i \in 1..Len(calls) |-> <<calls[i].line, calls[i].msg>>]

\* C20: line framing does not depend on the chunks recv returns: whatever
\* the chunks, the hardware sends made so far are the sends the lines read
\* so far cause when each arrives in a chunk of its own, in stream order.
C20_FramingIndependentOfChunks ==
    SendsOf(hwSent) = SendsOf(DispatchLines(LinesRead, midi_out))

\* the controller state a position of the main thread belongs to: 0 Idle
\* (constructed, run() has done nothing yet), 1 Initializing, 2 Running,
\* 3 ShuttingDown (cleanup), 4 Stopped, 5 ended without reaching Stopped
PhaseRank(pc) ==
    IF pc = "init_in" THEN 0
    ELSE IF pc \in {"init_out", "mksock", "connect", "spawn"} THEN 1
    ELSE IF pc = "wait" THEN 2
    ELSE IF pc \in {"cleanup", "close1", "close2", "close3"} THEN 3
    ELSE IF pc = "stopped" THEN 4
    ELSE 5

\* C21: the controller goes through Idle, Initializing, Running,
\* ShuttingDown, Stopped in that order: no step returns to an earlier state,
\* Running is entered with the socket connected only, and the process does
\* not end from Idle, Initializing or Running without the closes of cleanup.
C21_StateOrder ==
    [][/\ PhaseRank(mainPc') >= PhaseRank(mainPc)
       /\ mainPc' = "wait" => sock' = "connected"
       /\ PhaseRank(mainPc') = 5 => PhaseRank(mainPc) \in {3, 5}]_vars

\* C22: nothing is dropped between hardware and socket: while the bridge
\* is Running and the socket can be written, a step of the callback (one
\* hardware event) appends exactly one successful write to the writes made
\* so far; no step removes or reorders the writes made so far.
C22_NoDroppedEvents ==
    [][/\ Len(sockOut') >= Len(sockOut)
       /\ SubSeq(sockOut', 1, Len(sockOut)) = sockOut
       /\ (hwEvents' = hwEvents + 1 /\ mainPc = "wait" /\ running
           /\ SendallOk) =>
             /\ Len(sockOut') = Len(sockOut) + 1
             /\ sockOut'[Len(sockOut')].ok]_vars

\* C23: a send_message call that fails is reported and nothing more: a
\* step of the read loop that makes send attempts, failed or not, leaves
\* the running flag as it was, stays in the loop and keeps the attempts
\* made before; and as long as no read error has ended the loop, one
\* attempt, failed or not, has been made for every command line read so
\* far, the lines after a failed one too, and no more than one.
C23_SendFailureNotFatal ==
    /\ [][hwSent' # hwSent =>
             /\ running' = running
             /\ listenerPc' = "check"
             /\ listenerExit' = listenerExit
             /\ SubSeq(hwSent', 1, Len(hwSent)) = hwSent]_vars
    /\ [](listenerExit # "error" =>
             /\ Len(hwSent) <= Len(LinesRead)
             /\ SendsOf(hwSent) = SendsOf(DispatchLines(LinesRead, midi_out)))

C23_Witness ==
    /\ Len(hwSent) = 2
    /\ ~hwSent[1].ok
    /\ hwSent[2].ok
    /\ running
    /\ mainPc = "wait"
    /\ listenerPc = "check"

\* open_port() was called on the selected input (output) port and raised:
\* the handle exists, its port is within the available ports and not open
OpenFailedIn ==
    /\ mainPc # "init_in"
    /\ midi_in = "unopened"
    /\ input_device_id < available_inputs

OpenFailedOut ==
    /\ mainPc \notin {"init_in", "init_out"}
    /\ midi_out = "unopened"
    /\ output_device_id < available_outputs

\* C24: when opening the selected input or output port has failed, the
\* bridge does not reach Running: the process has ended with a non-zero
\* status, no socket was created, no listener thread was started and
\* nothing has been forwarded in either direction.
C24_OpenFailureIsFatal ==
    (OpenFailedIn \/ OpenFailedOut) =>
        /\ mainPc = "crashed"
        /\ ExitStatus # 0
        /\ sock = "None"
        /\ listenerPc = "none"
        /\ sockOut = <<>>
        /\ hwSent = <<>>

\* the output port failed to open after the input port was open and had
\* delivered an event
C24_Witness ==
    /\ OpenFailedOut
    /\ midi_in = "open"
    /\ hwEvents = 1
    /\ mainPc = "crashed"

\* C25: every line written to the socket has its numeric fields in range,
\* whatever bytes 0..255 the message carried: channel in 1..16, bend in
\* 0..16383, note, velocity, controller, value and program in 0..127.
C25_WrittenFieldsInRange ==
    \A i \in 1..Len(sockOut) :
        LET toks == Tokens(sockOut[i])
            field(k) == ParseInt(toks[k])
        IN  toks[1] # W_UNKNOWN =>
              /\ \A k \in 2..Len(toks) : field(k).ok
              /\ field(2).val \in 1..16
              /\ \A k \in 3..Len(toks) :
                    field(k).val \in
                        (IF toks[1] = W_PITCH_BEND THEN 0..16383 ELSE 0..127)

\* C26: the running flag is monotonic: true at construction and, in every
\* interleaving of the callback, the read thread and the main thread, never
\* true again once it has become false.
C26_RunningMonotonic ==
    /\ running = TRUE
    /\ [][running = FALSE => running' = FALSE]_vars

\* the callback cleared the flag, cleanup assigned it again and both threads
\* have ended
C26_Witness ==
    /\ ~running
    /\ WriteFailed
    /\ mainPc = "stopped"
    /\ listenerPc = "done"

\* the main thread is between the registration of the input callback and
\* the completion of connect
InitWindow == mainPc \in {"init_out", "mksock", "connect"}

\* C27: a hardware event that arrives during initialization, before the
\* socket connection is established (the window between creating the socket
\* object and completing connect included), is discarded: no socket write is
\* attempted and the running flag is not cleared.
C27_InitEventDiscarded ==
    [][(InitWindow /\ hwEvents' = hwEvents + 1) =>
          /\ sockOut' = sockOut
          /\ running' = running]_vars

\* C28: no use after close: in every interleaving of shutdown with the two
\* data paths, the read thread submits no message to an output port that
\* cleanup has already closed.
C28_NoUseAfterClose ==
    \A i \in 1..Len(hwSent) : hwSent[i].port # "closed"

NonEmpty(line) == line # <<>>

\* C29: after the read loop has processed a chunk its buffer holds no
\* newline; an empty line causes no hardware send; a last fragment that no
\* newline terminated before the peer closed is never sent to hardware: the
\* sends are those of the non-empty terminated lines, one each, and at end
\* of stream the fragment is what is left in the buffer.
C29_LineFraming ==
    LET commands == SelectSeq(sentLines, NonEmpty)
    IN  /\ \A i \in 1..Len(buffer) : buffer[i] # NL
        /\ Len(hwSent) <= Len(commands)
        /\ \A i \in 1..Len(hwSent) : hwSent[i].line = commands[i]
        /\ (listenerPc = "done" /\ listenerExit = "eof") =>
              /\ Len(hwSent) = Len(commands)
              /\ buffer \in Fragments \cup {<<>>}

\* end of stream after a command, an empty line and an unterminated copy of
\* the command: one send, the fragment still in the buffer
C29_Witness ==
    /\ listenerPc = "done"
    /\ listenerExit = "eof"
    /\ sentLines = <<L_CC, <<>>>>
    /\ buffer = L_CC
    /\ Len(hwSent) = 1

\* C30: a message is submitted to the hardware output only through a port
\* that was opened during initialization, for every combination of output
\* index and number of output ports: no send is attempted on an output
\* handle whose port was never opened.
C30_SendOnlyOnOpenedPort ==
    \A i \in 1..Len(hwSent) : hwSent[i].port # "unopened"

====
